---- MODULE Spec2Model ----
(***************************************************************************)
(* Model of package counters (counter.go): a CounterBox holding three maps *)
(* of named instances (counters, min, max) behind one sync.RWMutex, the    *)
(* atomic counter and the lock-free min/max trackers.                      *)
(*                                                                         *)
(* Each goroutine is a thread with a program position pc[t], the locals of *)
(* the call it is in (fr[t]) and the handle its last Get* call returned    *)
(* (h[t]).  One action is one atomic step of the code: a lock operation, a *)
(* map access made under the lock, or one sync/atomic operation.           *)
(*                                                                         *)
(* int64 is modelled with IntBits bits (two's complement), since the model *)
(* checker's integers are narrower than 64 bits: MaxInt64 is the largest   *)
(* value of that width.                                                    *)
(***************************************************************************)
EXTENDS Integers, Sequences, FiniteSets, TLC

\* ---------------------------------------------------------------- bounds
NumThreads == 2
IntBits == 4
MaxCand == 2
MaxDelta == 1
IncrementsPerThread == 3

Threads == 1..NumThreads
\* the names clients use, in lexicographic order
NameSeq == <<"a", "b", "c">>
Names == {NameSeq[i] : i \in 1..Len(NameSeq)}
\* arguments of Set(int) the clients pass: a negative one, zero, positive ones
Cands == (-1)..MaxCand
\* arguments of IncrementBy(int) the clients pass
Deltas == (-MaxDelta)..MaxDelta

\* ---------------------------------------------------------------- int64
Pow2(n) == 2 ^ n
MaxInt64 == Pow2(IntBits - 1) - 1
MinInt64 == -Pow2(IntBits - 1)
Int64 == MinInt64..MaxInt64
\* two's-complement wrap of an integer into the int64 range
Wrap64(x) == ((x - MinInt64) % Pow2(IntBits)) + MinInt64

\* sync/atomic
\* (variant: a store of the delta in place of the addition)
AddInt64Stores(val, delta) == Wrap64(delta)
\* (variant: the sum is clamped to the int64 range instead of wrapping)
AddInt64Saturates(val, delta) ==
    IF val + delta > MaxInt64 THEN MaxInt64
    ELSE IF val + delta < MinInt64 THEN MinInt64 ELSE val + delta
AddInt64(val, delta) == Wrap64(val + delta)
\* (variant: a load that sees only the low half of the word)
LoadInt64LowHalf(val) == val % Pow2(IntBits - 1)
LoadInt64(val) == val
\* (variant: a plain store in place of the compare-and-swap)
StoreUnconditionally(val, old, new) == <<TRUE, new>>
\* CompareAndSwapInt64(&addr, old, new): <<swapped, value stored afterwards>>
\* (variant: the old and the new value are passed in each other's place)
CasArgsSwapped(val, old, new) == IF val = new THEN <<TRUE, old>> ELSE <<FALSE, val>>
CompareAndSwapInt64(val, old, new) == IF val = old THEN <<TRUE, new>> ELSE <<FALSE, val>>

\* ---------------------------------------------------------------- state
VARIABLES
    box,    \* CounterBox: the maps counters, min, max (name -> instance, 0 = absent)
    m,      \* CounterBox.m, the sync.RWMutex
    heap,   \* the allocated counterImpl / minImpl / maxImpl structs, by address
    pc,     \* per thread: position in the call it is executing
    fr,     \* per thread: locals of the call it is executing
    h,      \* per thread: the handle returned by its last Get* call (0 = none)
    passed, \* history: per instance, the arguments of the Set calls made on it
    calls,  \* per thread: Increment() calls completed (the client's loop counter)
    returned, \* history: per counter name, the sum of the deltas of the
              \* IncrementBy calls that have returned
    dumper  \* the goroutine InitCountersOnSignal starts, with its clock and channel

\* the state only the linearizability history and the signal dumper touch
aux == <<returned, dumper>>
vars == <<box, m, heap, pc, fr, h, passed, calls, returned, dumper>>

None == 0
Namespaces == {"counters", "min", "max"}
\* the struct type each map holds
ImplOf(ns) == CASE ns = "counters" -> "counterImpl"
                [] ns = "min" -> "minImpl"
                [] ns = "max" -> "maxImpl"
\* the value field a newly created instance is given
CounterInit == 0
MinInit == MaxInt64
\* (variant: the smallest representable value, symmetric with MinInit)
MaxInitSmallest == MinInt64
MaxInit == 0
InitValue(ns) == CASE ns = "counters" -> CounterInit
                   [] ns = "min" -> MinInit
                   [] ns = "max" -> MaxInit

\* locals of a call: op the method, ns/name/v/ok those of Get*, v64/o those of
\* Set, IncrementBy and Value, data/i/out those of WriteTo and the HTTP handler.
\* History, not read by the code: had (the name was bound when the Get* call
\* started), at (the maps when the snapshot got the read lock), poss (the
\* results a Value() call may return, see CallValue).
NoFrame == [op |-> "none", ns |-> "none", name |-> "none", v |-> None, ok |-> FALSE,
            v64 |-> 0, o |-> 0, data |-> <<>>, i |-> 0, out |-> <<>>,
            had |-> FALSE, at |-> <<>>, poss |-> {}]

\* history of the Set calls made on one tracker: how many (0, 1, or 2 for more)
\* and the extremum of their arguments in the tracker's direction
NoArgs == [n |-> 0, ext |-> 0]
Min2(a, b) == IF a < b THEN a ELSE b
Max2(a, b) == IF a > b THEN a ELSE b
Record(p, type, v) ==
    [n |-> Min2(p.n + 1, 2),
     ext |-> IF p.n = 0 THEN v ELSE IF type = "maxImpl" THEN Max2(p.ext, v) ELSE Min2(p.ext, v)]

\* no InitCountersOnSignal call yet: no goroutine, no channel. now is the clock,
\* sigs the channel, sig and lastInt the goroutine's locals, logged the number of
\* logger.Print calls made, exited whether os.Exit was called. History: sent and
\* received count the signals delivered and taken from the channel, prev is the
\* time taken for the previous SIGINT (Never when there was none), last the
\* latest decision.
Never == None - 1
NoDecision == [sig |-> "none", l |-> 0, prev |-> Never, exit |-> FALSE]
NoDumper == [pc |-> "off", now |-> 0, lastInt |-> 0, sigs |-> <<>>, sig |-> "none",
             logged |-> 0, exited |-> FALSE,
             sent |-> 0, received |-> 0, prev |-> Never, last |-> NoDecision]

\* NewCounterBox
Init ==
    /\ box = [ns \in Namespaces |-> [n \in Names |-> None]]
    /\ m = [w |-> None, r |-> {}, b |-> {}]
    /\ heap = <<>>
    /\ pc = [t \in Threads |-> "idle"]
    /\ fr = [t \in Threads |-> NoFrame]
    /\ h = [t \in Threads |-> None]
    /\ passed = <<>>
    /\ calls = [t \in Threads |-> 0]
    /\ returned = [n \in Names |-> 0]
    /\ dumper = NoDumper

GetOps == {"GetCounter", "GetMin", "GetMax"}

\* ---------------------------------------------------------------- sync.RWMutex
\* m.w: the writer that holds the writer mutex and has announced itself (it owns
\* the lock once the readers it found have left); m.r: the readers holding the
\* lock; m.b: readers that arrived after a writer announced itself and sleep
\* until that writer's Unlock.

\* c.m.RLock() by t: the mutex afterwards, and where t is then
RLockMutex(t) == IF m.w = None THEN [m EXCEPT !.r = @ \cup {t}]
                                ELSE [m EXCEPT !.b = @ \cup {t}]
\* (variant: RLock returns at once even when a writer holds or awaits the lock)
RLockNeverWaits(t) == "RLocked"
RLockPc(t) == IF m.w = None THEN "RLocked" ELSE "RLockWait"

\* c.m.RUnlock() by t
RUnlockMutex(t) == [m EXCEPT !.r = @ \ {t}]

\* c.m.Unlock(): the readers that slept behind the writer now hold the lock
UnlockMutex == [w |-> None, r |-> m.b, b |-> {}]

\* c.m.RLock() returning after having slept behind a writer (a snapshot notes
\* the maps it finds, as CallWriteTo does)
RLockWake(t) ==
    /\ pc[t] = "RLockWait"
    /\ t \in m.r
    /\ pc' = [pc EXCEPT ![t] = "RLocked"]
    /\ fr' = [fr EXCEPT ![t].at = IF fr[t].op \in GetOps THEN @ ELSE box]
    /\ UNCHANGED <<box, m, heap, h, passed, calls>>
    /\ UNCHANGED aux

\* c.m.Lock(): take the writer mutex and announce the writer to the readers
Lock(t) ==
    /\ pc[t] = "Lock"
    /\ m.w = None
    /\ m' = [m EXCEPT !.w = t]
    /\ pc' = [pc EXCEPT ![t] = "LockWait"]
    /\ UNCHANGED <<box, heap, fr, h, passed, calls>>
    /\ UNCHANGED aux

\* (variant: Lock returns while readers still hold the lock)
LockAcquireIgnoresReaders(t) ==
    /\ pc[t] = "LockWait"
    /\ m.w = t
    /\ pc' = [pc EXCEPT ![t] = "Locked"]
    /\ UNCHANGED <<box, m, heap, fr, h, passed, calls>>
    /\ UNCHANGED aux

\* c.m.Lock() returning once the readers have left
LockAcquire(t) ==
    /\ pc[t] = "LockWait"
    /\ m.w = t
    /\ m.r = {}
    /\ pc' = [pc EXCEPT ![t] = "Locked"]
    /\ UNCHANGED <<box, m, heap, fr, h, passed, calls>>
    /\ UNCHANGED aux

\* ---------------------------------------------------------------- get-or-create
\* GetCounter / GetMin / GetMax are the same code over c.counters / c.min / c.max.

\* the call, up to and including c.m.RLock()
CallGet(t, op, ns, name) ==
    /\ pc[t] = "idle"
    /\ fr' = [fr EXCEPT ![t] = [NoFrame EXCEPT !.op = op, !.ns = ns, !.name = name,
                                                !.had = (box[ns][name] # None)]]
    /\ m' = RLockMutex(t)
    /\ pc' = [pc EXCEPT ![t] = RLockPc(t)]
    /\ UNCHANGED <<box, heap, h, passed, calls>>
    /\ UNCHANGED aux

CallGetCounter(t, name) == CallGet(t, "GetCounter", "counters", name)
CallGetMin(t, name) == CallGet(t, "GetMin", "min", name)
CallGetMax(t, name) == CallGet(t, "GetMax", "max", name)

\* v, ok := c.counters[name] (c.min, c.max), under the read lock
GetLookup(t) ==
    /\ pc[t] = "RLocked"
    /\ fr[t].op \in GetOps
    /\ fr' = [fr EXCEPT ![t].v = box[fr[t].ns][fr[t].name],
                        ![t].ok = (box[fr[t].ns][fr[t].name] # None)]
    /\ pc' = [pc EXCEPT ![t] = "RUnlock"]
    /\ UNCHANGED <<box, m, heap, h, passed, calls>>
    /\ UNCHANGED aux

\* (variant: the ok of the first lookup is not tested, the call always goes on to Lock)
GetRUnlockAlwaysLocks(t) ==
    /\ pc[t] = "RUnlock"
    /\ fr[t].op \in GetOps
    /\ m' = RUnlockMutex(t)
    /\ pc' = [pc EXCEPT ![t] = "Lock"]
    /\ UNCHANGED <<fr, h>>
    /\ UNCHANGED <<box, heap, passed, calls>>
    /\ UNCHANGED aux

\* (variant: the read lock is still held when the call goes on to Lock)
GetRUnlockKeepsLock(t) ==
    /\ pc[t] = "RUnlock"
    /\ fr[t].op \in GetOps
    /\ m' = m
    /\ IF fr[t].ok
          THEN /\ h' = [h EXCEPT ![t] = fr[t].v]
               /\ fr' = [fr EXCEPT ![t] = NoFrame]
               /\ pc' = [pc EXCEPT ![t] = "idle"]
          ELSE /\ pc' = [pc EXCEPT ![t] = "Lock"]
               /\ UNCHANGED <<fr, h>>
    /\ UNCHANGED <<box, heap, passed, calls>>
    /\ UNCHANGED aux

\* c.m.RUnlock(); then return v when ok, else go on to c.m.Lock()
GetRUnlock(t) ==
    /\ pc[t] = "RUnlock"
    /\ fr[t].op \in GetOps
    /\ m' = RUnlockMutex(t)
    /\ IF fr[t].ok
          THEN /\ h' = [h EXCEPT ![t] = fr[t].v]
               /\ fr' = [fr EXCEPT ![t] = NoFrame]
               /\ pc' = [pc EXCEPT ![t] = "idle"]
          ELSE /\ pc' = [pc EXCEPT ![t] = "Lock"]
               /\ UNCHANGED <<fr, h>>
    /\ UNCHANGED <<box, heap, passed, calls>>
    /\ UNCHANGED aux

\* (variant: no second lookup, the instance is created whenever the first missed)
RecheckAlwaysMisses(b, ns, name) == None
\* the second lookup, v, ok = c.counters[name], made under the exclusive lock
Recheck(b, ns, name) == b[ns][name]

\* (variant: GetMin stores into c.max)
InsertIntoSwapped(ns) == IF ns = "min" THEN "max" ELSE ns
\* the map GetCounter / GetMin / GetMax store a created instance in
InsertInto(ns) == ns

\* if v, ok = c.counters[name]; !ok { v = &counterImpl{name, 0}; c.counters[name] = v }
GetRecheck(t) ==
    /\ pc[t] = "Locked"
    /\ fr[t].op \in GetOps
    /\ LET found == Recheck(box, fr[t].ns, fr[t].name)
           new == Len(heap) + 1
       IN  IF found # None
              THEN /\ fr' = [fr EXCEPT ![t].v = found, ![t].ok = TRUE]
                   /\ UNCHANGED <<box, heap, passed>>
              ELSE /\ heap' = Append(heap, [type |-> ImplOf(fr[t].ns),
                                            name |-> fr[t].name,
                                            value |-> InitValue(fr[t].ns)])
                   /\ passed' = Append(passed, NoArgs)
                   /\ box' = [box EXCEPT ![InsertInto(fr[t].ns)][fr[t].name] = new]
                   /\ fr' = [fr EXCEPT ![t].v = new]
    /\ pc' = [pc EXCEPT ![t] = "Unlock"]
    /\ UNCHANGED <<m, h, calls>>
    /\ UNCHANGED aux

\* c.m.Unlock(); return v
GetUnlock(t) ==
    /\ pc[t] = "Unlock"
    /\ fr[t].op \in GetOps
    /\ m' = UnlockMutex
    /\ h' = [h EXCEPT ![t] = fr[t].v]
    /\ fr' = [fr EXCEPT ![t] = NoFrame]
    /\ pc' = [pc EXCEPT ![t] = "idle"]
    /\ UNCHANGED <<box, heap, passed, calls>>
    /\ UNCHANGED aux

\* ---------------------------------------------------------------- counterImpl
\* the receiver of a method call: the instance behind the handle t holds
IsA(t, type) == h[t] # None /\ heap[h[t]].type = type

\* int64(num) of an int argument
ToInt64(num) == Wrap64(num)

\* func (c *counterImpl) Increment(): atomic.AddInt64(&c.value, 1)
Increment(t) ==
    /\ pc[t] = "idle"
    /\ IsA(t, "counterImpl")
    /\ heap' = [heap EXCEPT ![h[t]].value = AddInt64(@, 1)]
    /\ calls' = [calls EXCEPT ![t] = @ + 1]
    /\ UNCHANGED <<box, m, pc, fr, h, passed>>
    /\ UNCHANGED aux

\* func (c *counterImpl) IncrementBy(num int): atomic.AddInt64(&c.value, int64(num))
IncrementBy(t, num) ==
    /\ pc[t] = "idle"
    /\ IsA(t, "counterImpl")
    /\ heap' = [heap EXCEPT ![h[t]].value = AddInt64(@, ToInt64(num))]
    /\ UNCHANGED <<box, m, pc, fr, h, passed, calls>>
    /\ UNCHANGED aux

\* func (c *counterImpl) Value() (and maxImpl, minImpl): atomic.LoadInt64(&c.value)
Value(i) == LoadInt64(heap[i].value)
\* func (c *counterImpl) Name() (and maxImpl, minImpl)
Name(i) == heap[i].name

\* The same methods with the call and the return apart from the atomic
\* instruction, as a caller that overlaps them with other calls sees them.
\* the threads inside an IncrementBy call on instance i
Adding(i) == {u \in Threads : fr[u].op = "IncrementBy" /\ h[u] = i}
RECURSIVE SumOfDeltas(_)
SumOfDeltas(U) == IF U = {} THEN 0
                  ELSE LET u == CHOOSE x \in U : TRUE
                       IN  fr[u].v64 + SumOfDeltas(U \ {u})

\* c.IncrementBy(num) is called (c.Increment() is the call with num = 1); a
\* Value() call in progress on the instance may or may not see this increment
CallIncrementBy(t, num) ==
    /\ pc[t] = "idle"
    /\ IsA(t, "counterImpl")
    /\ fr' = [u \in Threads |->
                IF u = t THEN [NoFrame EXCEPT !.op = "IncrementBy", !.v64 = ToInt64(num)]
                ELSE IF fr[u].op = "Value" /\ h[u] = h[t]
                     THEN [fr[u] EXCEPT !.poss = @ \cup {Wrap64(p + ToInt64(num)) : p \in @}]
                     ELSE fr[u]]
    /\ pc' = [pc EXCEPT ![t] = "Add"]
    /\ UNCHANGED <<box, m, heap, h, passed, calls, returned, dumper>>

\* atomic.AddInt64(&c.value, int64(num))
IncrementByAdd(t) ==
    /\ pc[t] = "Add"
    /\ heap' = [heap EXCEPT ![h[t]].value = AddInt64(@, fr[t].v64)]
    /\ pc' = [pc EXCEPT ![t] = "AddDone"]
    /\ UNCHANGED <<box, m, fr, h, passed, calls, returned, dumper>>

\* IncrementBy returns
IncrementByReturn(t) ==
    /\ pc[t] = "AddDone"
    /\ returned' = [returned EXCEPT ![Name(h[t])] = Wrap64(@ + fr[t].v64)]
    /\ calls' = [calls EXCEPT ![t] = @ + 1]
    /\ fr' = [fr EXCEPT ![t] = NoFrame]
    /\ pc' = [pc EXCEPT ![t] = "idle"]
    /\ UNCHANGED <<box, m, heap, h, passed, dumper>>

\* c.Value() is called: the results it may return are the sum of the increments
\* that have returned plus any of the increments in progress
CallValue(t) ==
    /\ pc[t] = "idle"
    /\ IsA(t, "counterImpl")
    /\ fr' = [fr EXCEPT ![t] = [NoFrame EXCEPT
                !.op = "Value",
                !.poss = {Wrap64(returned[Name(h[t])] + SumOfDeltas(U)) :
                             U \in SUBSET Adding(h[t])}]]
    /\ pc' = [pc EXCEPT ![t] = "Load"]
    /\ UNCHANGED <<box, m, heap, h, passed, calls, returned, dumper>>

\* atomic.LoadInt64(&c.value)
ValueLoad(t) ==
    /\ pc[t] = "Load"
    /\ fr' = [fr EXCEPT ![t].o = LoadInt64(Value(h[t]))]
    /\ pc' = [pc EXCEPT ![t] = "Loaded"]
    /\ UNCHANGED <<box, m, heap, h, passed, calls, returned, dumper>>

\* Value returns fr[t].o
ValueReturn(t) ==
    /\ pc[t] = "Loaded"
    /\ fr' = [fr EXCEPT ![t] = NoFrame]
    /\ pc' = [pc EXCEPT ![t] = "idle"]
    /\ UNCHANGED <<box, m, heap, h, passed, calls, returned, dumper>>

\* ---------------------------------------------------------------- maxImpl, minImpl
\* (variant: a tie counts as beating)
MaxBeatsOrTies(v64, o) == v64 >= o
\* (variant: minImpl's comparison left in maxImpl)
MaxBeatsWrongWay(v64, o) == v64 < o
\* the test of maxImpl.Set's loop: v64 > o
MaxBeats(v64, o) == v64 > o
\* the test of minImpl.Set's loop: v64 < o
MinBeats(v64, o) == v64 < o
Beats(type, v64, o) == IF type = "maxImpl" THEN MaxBeats(v64, o) ELSE MinBeats(v64, o)

\* the call of Set(v) on a tracker of the given type: done := false; v64 := int64(v)
CallSet(t, type, v) ==
    /\ pc[t] = "idle"
    /\ IsA(t, type)
    /\ fr' = [fr EXCEPT ![t] = [NoFrame EXCEPT !.op = "Set", !.v64 = ToInt64(v)]]
    /\ passed' = [passed EXCEPT ![h[t]] = Record(@, type, v)]
    /\ pc' = [pc EXCEPT ![t] = "SetLoad"]
    /\ UNCHANGED <<box, m, heap, h, calls>>
    /\ UNCHANGED aux

CallMaxSet(t, v) == CallSet(t, "maxImpl", v)
CallMinSet(t, v) == CallSet(t, "minImpl", v)

\* (variant: the load is made under the registry's read lock)
SetLoadUnderLock(t) ==
    /\ m.w = None
    /\ pc[t] = "SetLoad"
    /\ LET o == LoadInt64(heap[h[t]].value)
       IN  IF Beats(heap[h[t]].type, fr[t].v64, o)
              THEN /\ fr' = [fr EXCEPT ![t].o = o]
                   /\ pc' = [pc EXCEPT ![t] = "SetCAS"]
              ELSE /\ fr' = [fr EXCEPT ![t] = NoFrame]
                   /\ pc' = [pc EXCEPT ![t] = "idle"]
    /\ UNCHANGED <<box, m, heap, h, passed, calls>>
    /\ UNCHANGED aux

\* if o := atomic.LoadInt64(&m.value); v64 > o { ... } else { done = true }
SetLoad(t) ==
    /\ pc[t] = "SetLoad"
    /\ LET o == LoadInt64(heap[h[t]].value)
       IN  IF Beats(heap[h[t]].type, fr[t].v64, o)
              THEN /\ fr' = [fr EXCEPT ![t].o = o]
                   /\ pc' = [pc EXCEPT ![t] = "SetCAS"]
              ELSE /\ fr' = [fr EXCEPT ![t] = NoFrame]
                   /\ pc' = [pc EXCEPT ![t] = "idle"]
    /\ UNCHANGED <<box, m, heap, h, passed, calls>>
    /\ UNCHANGED aux

\* done = atomic.CompareAndSwapInt64(&m.value, o, v64); the loop ends when done
SetCAS(t) ==
    /\ pc[t] = "SetCAS"
    /\ LET cas == CompareAndSwapInt64(heap[h[t]].value, fr[t].o, fr[t].v64)
       IN  /\ heap' = [heap EXCEPT ![h[t]].value = cas[2]]
           /\ IF cas[1]
                 THEN /\ fr' = [fr EXCEPT ![t] = NoFrame]
                      /\ pc' = [pc EXCEPT ![t] = "idle"]
                 ELSE /\ pc' = [pc EXCEPT ![t] = "SetLoad"]
                      /\ UNCHANGED fr
    /\ UNCHANGED <<box, m, h, passed, calls>>
    /\ UNCHANGED aux

\* ---------------------------------------------------------------- WriteTo
\* strings.Compare on names: NameSeq lists them in lexicographic order
NameIndex(n) == CHOOSE i \in 1..Len(NameSeq) : NameSeq[i] = n
Compare(a, b) == IF NameIndex(a) < NameIndex(b) THEN -1
                 ELSE IF NameIndex(a) > NameIndex(b) THEN 1 ELSE 0

\* the orders in which a range over a map can yield its values
Instances(mp) == {mp[n] : n \in Names} \ {None}
Orderings(S) == {s \in [1..Cardinality(S) -> S] : \A i, j \in 1..Cardinality(S) : s[i] = s[j] => i = j}

\* sort.Slice(data.X, func(i, j) bool { return strings.Compare(name i, name j) < 0 })
RECURSIVE InsertSorted(_, _)
InsertSorted(s, e) ==
    IF s = <<>> THEN <<e>>
    ELSE IF Compare(Name(e), Name(Head(s))) < 0 THEN <<e>> \o s
    ELSE <<Head(s)>> \o InsertSorted(Tail(s), e)
\* (variant: the slices are left in the order the range loops produced)
KeepsMapOrder(s) == s
RECURSIVE SortByName(_)
SortByName(s) == IF s = <<>> THEN <<>> ELSE InsertSorted(SortByName(Tail(s)), Head(s))

\* the call, up to and including c.m.RLock(); defer c.m.RUnlock()
CallWriteTo(t) ==
    /\ pc[t] = "idle"
    /\ fr' = [fr EXCEPT ![t] = [NoFrame EXCEPT !.op = "WriteTo", !.at = box]]
    /\ m' = RLockMutex(t)
    /\ pc' = [pc EXCEPT ![t] = RLockPc(t)]
    /\ UNCHANGED <<box, heap, h, passed, calls>>
    /\ UNCHANGED aux

\* (variant: the read lock is released as soon as the references are copied)
CopyReleasesLock(t) == RUnlockMutex(t)
\* the mutex after the three range loops: RUnlock is deferred, it has not run
CopyMutex(t) == m

\* for _, c := range c.counters { data.Counters = append(data.Counters, c) } (Min, Max)
WriteToCopy(t) ==
    /\ pc[t] = "RLocked"
    /\ fr[t].op = "WriteTo"
    /\ \E cs \in Orderings(Instances(box.counters)),
          mins \in Orderings(Instances(box.min)),
          maxs \in Orderings(Instances(box.max)) :
            fr' = [fr EXCEPT ![t].data = [Counters |-> cs, Min |-> mins, Max |-> maxs]]
    /\ m' = CopyMutex(t)
    /\ pc' = [pc EXCEPT ![t] = "Sort"]
    /\ UNCHANGED <<box, heap, h, passed, calls>>
    /\ UNCHANGED aux

\* the three sort.Slice calls
WriteToSort(t) ==
    /\ pc[t] = "Sort"
    /\ fr' = [fr EXCEPT ![t].data = [Counters |-> SortByName(@.Counters),
                                     Min |-> SortByName(@.Min),
                                     Max |-> SortByName(@.Max)]]
    /\ pc' = [pc EXCEPT ![t] = "Execute"]
    /\ UNCHANGED <<box, m, heap, h, passed, calls>>
    /\ UNCHANGED aux

\* the entries tmpl.Execute walks, in the template's order: .Counters, .Min, .Max
Entries(data) ==
    [k \in 1..Len(data.Counters) |-> [section |-> "Counters", e |-> data.Counters[k]]]
    \o [k \in 1..Len(data.Min) |-> [section |-> "Min", e |-> data.Min[k]]]
    \o [k \in 1..Len(data.Max) |-> [section |-> "Max", e |-> data.Max[k]]]

\* tmpl.Execute(w, data), one entry: {{.Name}}: {{.Value}}
WriteToValue(t) ==
    /\ pc[t] = "Execute"
    /\ fr[t].i < Len(Entries(fr[t].data))
    /\ LET ent == Entries(fr[t].data)[fr[t].i + 1]
       IN  fr' = [fr EXCEPT ![t].i = @ + 1,
                            ![t].out = Append(@, [section |-> ent.section,
                                                  name |-> Name(ent.e),
                                                  value |-> Value(ent.e)])]
    /\ UNCHANGED <<box, m, heap, pc, h, passed, calls>>
    /\ UNCHANGED aux

\* tmpl.Execute is through; WriteTo returns and the deferred c.m.RUnlock() runs
WriteToReturn(t) ==
    /\ pc[t] = "Execute"
    /\ fr[t].i = Len(Entries(fr[t].data))
    /\ m' = RUnlockMutex(t)
    /\ fr' = [fr EXCEPT ![t] = NoFrame]
    /\ pc' = [pc EXCEPT ![t] = "idle"]
    /\ UNCHANGED <<box, heap, h, passed, calls>>
    /\ UNCHANGED aux

\* tmpl: the text tmpl.Execute writes for the entries it walked, as its lines.
\* {{- range}} and {{- end}} trim the newline before them, so a header is followed
\* directly by its entries, one line each, and the last line ends the text.
HeaderLine(section) == IF section = "Counters" THEN <<"== Counters ==">>
                       ELSE IF section = "Min" THEN <<"== Min values ==">>
                       ELSE <<"== Max values ==">>
EntryLine(name, value) == <<"  ", name, ": ", value>>
SectionLines(out, section) ==
    LET es == SelectSeq(out, LAMBDA e : e.section = section)
    IN  [k \in 1..Len(es) |-> EntryLine(es[k].name, es[k].value)]
Text(out) ==
    <<HeaderLine("Counters")>> \o SectionLines(out, "Counters")
    \o <<HeaderLine("Min")>> \o SectionLines(out, "Min")
    \o <<HeaderLine("Max")>> \o SectionLines(out, "Max")

\* ---------------------------------------------------------------- CreateHttpHandler
\* the handler's call, up to and including c.m.RLock(); defer c.m.RUnlock()
CallHttpHandler(t) ==
    /\ pc[t] = "idle"
    /\ fr' = [fr EXCEPT ![t] = [NoFrame EXCEPT !.op = "ServeHTTP", !.at = box]]
    /\ m' = RLockMutex(t)
    /\ pc' = [pc EXCEPT ![t] = RLockPc(t)]
    /\ UNCHANGED <<box, heap, h, passed, calls>>
    /\ UNCHANGED aux

\* the order in which the three range loops will yield the maps' entries (the
\* maps cannot change before the handler returns: it holds the read lock)
HttpRange(t) ==
    /\ pc[t] = "RLocked"
    /\ fr[t].op = "ServeHTTP"
    /\ \E cs \in Orderings(Instances(box.counters)),
          mins \in Orderings(Instances(box.min)),
          maxs \in Orderings(Instances(box.max)) :
            fr' = [fr EXCEPT ![t].data = [Counters |-> cs, Min |-> mins, Max |-> maxs]]
    /\ pc' = [pc EXCEPT ![t] = "Fprintf"]
    /\ UNCHANGED <<box, m, heap, h, passed, calls>>
    /\ UNCHANGED aux

\* the entries in the order the handler prints them: c.counters, c.max, c.min
HttpEntries(data) ==
    [k \in 1..Len(data.Counters) |-> [section |-> "Counters", e |-> data.Counters[k]]]
    \o [k \in 1..Len(data.Max) |-> [section |-> "Max", e |-> data.Max[k]]]
    \o [k \in 1..Len(data.Min) |-> [section |-> "Min", e |-> data.Min[k]]]

\* fmt.Fprintf(w, "%s=%d\n", k, v.Value()), one entry
HttpValue(t) ==
    /\ pc[t] = "Fprintf"
    /\ fr[t].i < Len(HttpEntries(fr[t].data))
    /\ LET ent == HttpEntries(fr[t].data)[fr[t].i + 1]
       IN  fr' = [fr EXCEPT ![t].i = @ + 1,
                            ![t].out = Append(@, [section |-> ent.section,
                                                  name |-> Name(ent.e),
                                                  value |-> Value(ent.e)])]
    /\ UNCHANGED <<box, m, heap, pc, h, passed, calls>>
    /\ UNCHANGED aux

\* the handler returns and the deferred c.m.RUnlock() runs
HttpReturn(t) ==
    /\ pc[t] = "Fprintf"
    /\ fr[t].i = Len(HttpEntries(fr[t].data))
    /\ m' = RUnlockMutex(t)
    /\ fr' = [fr EXCEPT ![t] = NoFrame]
    /\ pc' = [pc EXCEPT ![t] = "idle"]
    /\ UNCHANGED <<box, heap, h, passed, calls>>
    /\ UNCHANGED aux

\* ---------------------------------------------------------------- InitCountersOnSignal
\* The clock counts ticks, TicksPerSecond of them to the second.
TicksPerSecond == 2
MaxTime == 4
MaxSignals == 3
Signals == {"SIGINT", "SIGTERM"}
SigsCap == 1

\* time passes
Tick ==
    /\ ~dumper.exited
    /\ dumper.now < MaxTime
    /\ dumper' = [dumper EXCEPT !.now = @ + 1]
    /\ UNCHANGED <<box, m, heap, pc, fr, h, passed, calls, returned>>

\* sigs := make(chan os.Signal, 1); signal.Notify(sigs, SIGINT, SIGTERM); go func()
InitCountersOnSignal ==
    /\ dumper.pc = "off"
    /\ dumper' = [dumper EXCEPT !.pc = "go"]
    /\ UNCHANGED <<box, m, heap, pc, fr, h, passed, calls, returned>>

\* the process gets a signal: signal.Notify's relay sends it to sigs without
\* blocking, so a signal that finds the channel full is dropped
Deliver(sig) ==
    /\ dumper.pc # "off"
    /\ ~dumper.exited
    /\ dumper.sent < MaxSignals
    /\ dumper' = [dumper EXCEPT !.sent = @ + 1,
                                !.sigs = IF Len(@) < SigsCap THEN Append(@, sig) ELSE @]
    /\ UNCHANGED <<box, m, heap, pc, fr, h, passed, calls, returned>>

\* the goroutine starts: lastInt := time.Now()
DumperStart ==
    /\ dumper.pc = "go"
    /\ dumper' = [dumper EXCEPT !.pc = "range", !.lastInt = dumper.now]
    /\ UNCHANGED <<box, m, heap, pc, fr, h, passed, calls, returned>>

\* for sig := range sigs
DumperReceive ==
    /\ dumper.pc = "range"
    /\ ~dumper.exited
    /\ dumper.sigs # <<>>
    /\ dumper' = [dumper EXCEPT !.pc = "Print", !.sig = Head(dumper.sigs),
                                !.sigs = Tail(@), !.received = @ + 1]
    /\ UNCHANGED <<box, m, heap, pc, fr, h, passed, calls, returned>>

\* logger.Print(box.String()): String takes the read lock, which no writer holds
\* when no other goroutine is inside a Get* call, and gives it back
DumperPrint ==
    /\ dumper.pc = "Print"
    /\ m.w = None
    /\ dumper' = [dumper EXCEPT !.pc = "Now", !.logged = @ + 1]
    /\ UNCHANGED <<box, m, heap, pc, fr, h, passed, calls, returned>>

\* l.Sub(lastInt).Seconds() < 1.
WithinASecond(l, lastInt) == l - lastInt < TicksPerSecond

\* l := time.Now(); if sig == SIGTERM || l.Sub(lastInt).Seconds() < 1. { os.Exit(0) };
\* lastInt = l
DumperDecide ==
    /\ dumper.pc = "Now"
    /\ LET l == dumper.now
           exit == dumper.sig = "SIGTERM" \/ WithinASecond(l, dumper.lastInt)
       IN  dumper' = [dumper EXCEPT
                        !.pc = IF exit THEN "Exit" ELSE "range",
                        !.exited = exit,
                        !.lastInt = IF exit THEN @ ELSE l,
                        !.prev = IF dumper.sig = "SIGINT" THEN l ELSE @,
                        !.last = [sig |-> dumper.sig, l |-> l, prev |-> dumper.prev,
                                  exit |-> exit]]
    /\ UNCHANGED <<box, m, heap, pc, fr, h, passed, calls, returned>>

\* ---------------------------------------------------------------- Spec: the registry
\* Any number of threads call GetCounter, GetMin and GetMax, again and again.
HotNames == {NameSeq[1]}
\* the thread of the scenarios that give one thread a role of its own
First == CHOOSE t \in Threads : \A u \in Threads : t <= u

Next ==
    \E t \in Threads :
        \/ \E name \in HotNames : CallGetCounter(t, name)
        \/ \E name \in HotNames : CallGetMin(t, name)
        \/ \E name \in HotNames : CallGetMax(t, name)
        \/ RLockWake(t)
        \/ GetLookup(t)
        \/ GetRUnlock(t)
        \/ Lock(t)
        \/ LockAcquire(t)
        \/ GetRecheck(t)
        \/ GetUnlock(t)

Spec == Init /\ [][Next]_vars

\* ---------------------------------------------------------------- SpecSum
\* Every thread obtains the counter once and calls Increment()
\* IncrementsPerThread times.
SumGetCounter(t) == h[t] = None /\ \E name \in HotNames : CallGetCounter(t, name)
SumIncrement(t) == calls[t] < IncrementsPerThread /\ Increment(t)

NextSum ==
    \E t \in Threads :
        \/ SumGetCounter(t)
        \/ SumIncrement(t)
        \/ RLockWake(t)
        \/ GetLookup(t)
        \/ GetRUnlock(t)
        \/ Lock(t)
        \/ LockAcquire(t)
        \/ GetRecheck(t)
        \/ GetUnlock(t)

SpecSum == Init /\ [][NextSum]_vars

\* ---------------------------------------------------------------- SpecCounter
\* Every thread obtains the counter once and then calls IncrementBy with any of
\* the deltas, again and again.
NextCounter ==
    \E t \in Threads :
        \/ SumGetCounter(t)
        \/ \E num \in Deltas : IncrementBy(t, num)
        \/ RLockWake(t)
        \/ GetLookup(t)
        \/ GetRUnlock(t)
        \/ Lock(t)
        \/ LockAcquire(t)
        \/ GetRecheck(t)
        \/ GetUnlock(t)

SpecCounter == Init /\ [][NextCounter]_vars

\* ---------------------------------------------------------------- Spec: overflow
\* Every thread obtains the counter once and then only ever adds to it: it calls
\* Increment() up to IncrementsPerThread times and IncrementBy with a positive
\* delta, the largest int among them, again and again.
WrapDeltas == (1..MaxDelta) \cup {MaxInt64}

NextWrap ==
    \E t \in Threads :
        \/ SumGetCounter(t)
        \/ SumIncrement(t)
        \/ \E num \in WrapDeltas : IncrementBy(t, num)
        \/ RLockWake(t)
        \/ GetLookup(t)
        \/ GetRUnlock(t)
        \/ Lock(t)
        \/ LockAcquire(t)
        \/ GetRecheck(t)
        \/ GetUnlock(t)

SpecWrap == Init /\ [][NextWrap]_vars

\* ---------------------------------------------------------------- Spec: overlapping calls
\* Every thread obtains the counter once; the first thread then calls Value, again
\* and again, while each of the others calls IncrementBy IncrementsPerThread
\* times, with the largest or the smallest delta; the calls of different threads
\* overlap.
LinDeltas == {-MaxDelta, MaxDelta}
LinIncrementBy(t) ==
    /\ t # First
    /\ calls[t] < IncrementsPerThread
    /\ \E num \in LinDeltas : CallIncrementBy(t, num)
LinValue(t) == t = First /\ CallValue(t)

NextLin ==
    \E t \in Threads :
        \/ SumGetCounter(t)
        \/ LinIncrementBy(t)
        \/ IncrementByAdd(t)
        \/ IncrementByReturn(t)
        \/ LinValue(t)
        \/ ValueLoad(t)
        \/ ValueReturn(t)
        \/ RLockWake(t)
        \/ GetLookup(t)
        \/ GetRUnlock(t)
        \/ Lock(t)
        \/ LockAcquire(t)
        \/ GetRecheck(t)
        \/ GetUnlock(t)

SpecLin == Init /\ [][NextLin]_vars

\* ---------------------------------------------------------------- SpecTrack
\* Every thread obtains one tracker, a Min or a Max, once and then calls Set on
\* it with any of the candidates, again and again.
TrackGetMin(t) == h[t] = None /\ \E name \in HotNames : CallGetMin(t, name)
TrackGetMax(t) == h[t] = None /\ \E name \in HotNames : CallGetMax(t, name)

NextTrack ==
    \E t \in Threads :
        \/ TrackGetMin(t)
        \/ TrackGetMax(t)
        \/ \E v \in Cands : CallMaxSet(t, v)
        \/ \E v \in Cands : CallMinSet(t, v)
        \/ SetLoad(t)
        \/ SetCAS(t)
        \/ RLockWake(t)
        \/ GetLookup(t)
        \/ GetRUnlock(t)
        \/ Lock(t)
        \/ LockAcquire(t)
        \/ GetRecheck(t)
        \/ GetUnlock(t)

SpecTrack == Init /\ [][NextTrack]_vars

\* ---------------------------------------------------------------- Spec: Set under fair scheduling
\* Every thread obtains one tracker, a Min or a Max, once and then calls Set on it
\* with one of two candidates, again and again. The scheduler is fair to every
\* goroutine: a thread that can take a step of its Set call eventually takes it.
FairCands == {1, MaxCand}

NextFairSet ==
    \E t \in Threads :
        \/ TrackGetMin(t)
        \/ TrackGetMax(t)
        \/ \E v \in FairCands : CallMaxSet(t, v)
        \/ \E v \in FairCands : CallMinSet(t, v)
        \/ SetLoad(t)
        \/ SetCAS(t)
        \/ RLockWake(t)
        \/ GetLookup(t)
        \/ GetRUnlock(t)
        \/ Lock(t)
        \/ LockAcquire(t)
        \/ GetRecheck(t)
        \/ GetUnlock(t)

FairSet ==
    /\ Init
    /\ [][NextFairSet]_vars
    /\ \A t \in Threads : WF_vars(SetLoad(t)) /\ WF_vars(SetCAS(t))

\* ---------------------------------------------------------------- SpecSnap
\* Every thread obtains at most one instance, of any kind, and takes snapshots,
\* again and again.
NextSnap ==
    \E t \in Threads :
        \/ SumGetCounter(t)
        \/ TrackGetMin(t)
        \/ TrackGetMax(t)
        \/ CallWriteTo(t)
        \/ WriteToCopy(t)
        \/ WriteToSort(t)
        \/ WriteToValue(t)
        \/ WriteToReturn(t)
        \/ RLockWake(t)
        \/ GetLookup(t)
        \/ GetRUnlock(t)
        \/ Lock(t)
        \/ LockAcquire(t)
        \/ GetRecheck(t)
        \/ GetUnlock(t)

SpecSnap == Init /\ [][NextSnap]_vars


\* ---------------------------------------------------------------- SpecSeq
\* One thread uses all three namespaces: it obtains instances of any kind, again
\* and again, and mutates the one it obtained last: IncrementBy on a counter,
\* Set on a tracker.
NextSeq ==
    \E t \in {First} :
        \/ \E name \in HotNames : CallGetCounter(t, name)
        \/ \E name \in HotNames : CallGetMin(t, name)
        \/ \E name \in HotNames : CallGetMax(t, name)
        \/ \E num \in Deltas : IncrementBy(t, num)
        \/ \E v \in Cands : CallMaxSet(t, v)
        \/ \E v \in Cands : CallMinSet(t, v)
        \/ SetLoad(t)
        \/ SetCAS(t)
        \/ GetLookup(t)
        \/ GetRUnlock(t)
        \/ Lock(t)
        \/ LockAcquire(t)
        \/ GetRecheck(t)
        \/ GetUnlock(t)

SpecSeq == Init /\ [][NextSeq]_vars

\* ---------------------------------------------------------------- Spec: rendering
\* One thread creates counters under any of the names, in any order, and a Min and
\* a Max tracker, increments the counter it holds a few times, and takes snapshots.
MaxShown == 1

RenderIncrement(t) == IsA(t, "counterImpl") /\ Value(h[t]) < MaxShown /\ IncrementBy(t, 1)

NextRender ==
    \/ \E name \in Names : CallGetCounter(First, name)
    \/ \E name \in HotNames : CallGetMin(First, name)
    \/ \E name \in HotNames : CallGetMax(First, name)
    \/ GetLookup(First)
    \/ GetRUnlock(First)
    \/ Lock(First)
    \/ LockAcquire(First)
    \/ GetRecheck(First)
    \/ GetUnlock(First)
    \/ RenderIncrement(First)
    \/ CallWriteTo(First)
    \/ WriteToCopy(First)
    \/ WriteToSort(First)
    \/ WriteToValue(First)
    \/ WriteToReturn(First)

SpecRender == Init /\ [][NextRender]_vars

\* ---------------------------------------------------------------- Spec: the signal dumper
\* The process calls InitCountersOnSignal and is sent signals as time passes.
NextSignal ==
    \/ Tick
    \/ InitCountersOnSignal
    \/ \E sig \in Signals : Deliver(sig)
    \/ DumperStart
    \/ DumperReceive
    \/ DumperPrint
    \/ DumperDecide

SpecSignal == Init /\ [][NextSignal]_vars

\* ---------------------------------------------------------------- Spec: handles and the lock
\* Every thread obtains one instance, a counter or a Max tracker, once, and then
\* uses it, a counter up to MaxShown, a tracker with the candidate MaxCand, and
\* has the registry written out by the HTTP handler, again and again.
FreeSet(t) == CallMaxSet(t, MaxCand)

NextFree ==
    \E t \in Threads :
        \/ SumGetCounter(t)
        \/ TrackGetMax(t)
        \/ RenderIncrement(t)
        \/ FreeSet(t)
        \/ SetLoad(t)
        \/ SetCAS(t)
        \/ CallHttpHandler(t)
        \/ HttpRange(t)
        \/ HttpValue(t)
        \/ HttpReturn(t)
        \/ RLockWake(t)
        \/ GetLookup(t)
        \/ GetRUnlock(t)
        \/ Lock(t)
        \/ LockAcquire(t)
        \/ GetRecheck(t)
        \/ GetUnlock(t)

SpecFree == Init /\ [][NextFree]_vars

\* ---------------------------------------------------------------- Spec: the lock
\* Every thread obtains at most one instance, of any kind, and takes snapshots and
\* serves HTTP requests, again and again.
NextLocks ==
    \E t \in Threads :
        \/ SumGetCounter(t)
        \/ TrackGetMin(t)
        \/ TrackGetMax(t)
        \/ CallWriteTo(t)
        \/ WriteToCopy(t)
        \/ WriteToSort(t)
        \/ WriteToValue(t)
        \/ WriteToReturn(t)
        \/ CallHttpHandler(t)
        \/ HttpRange(t)
        \/ HttpValue(t)
        \/ HttpReturn(t)
        \/ RLockWake(t)
        \/ GetLookup(t)
        \/ GetRUnlock(t)
        \/ Lock(t)
        \/ LockAcquire(t)
        \/ GetRecheck(t)
        \/ GetUnlock(t)

SpecLocks == Init /\ [][NextLocks]_vars

\* the steps that take a call of t, once made, to its return
Finish(t) ==
    \/ RLockWake(t)
    \/ GetLookup(t)
    \/ GetRUnlock(t)
    \/ Lock(t)
    \/ LockAcquire(t)
    \/ GetRecheck(t)
    \/ GetUnlock(t)
    \/ WriteToCopy(t)
    \/ WriteToSort(t)
    \/ WriteToValue(t)
    \/ WriteToReturn(t)
    \/ HttpRange(t)
    \/ HttpValue(t)
    \/ HttpReturn(t)

\* Every thread obtains the counter at most once and takes snapshots and serves
\* HTTP requests, again and again, under a scheduler that is fair to every
\* goroutine: a thread whose call can take its next step eventually takes it.
NextFairLocks ==
    \E t \in Threads :
        \/ SumGetCounter(t)
        \/ CallWriteTo(t)
        \/ CallHttpHandler(t)
        \/ Finish(t)

FairLocks ==
    /\ Init
    /\ [][NextFairLocks]_vars
    /\ \A t \in Threads : WF_vars(Finish(t))

\* ================================================================ properties
NsOf(type) == CHOOSE ns \in Namespaces : ImplOf(ns) = type
Allocated == DOMAIN heap
\* a Get* call that holds the value it is about to return
Returning(t) ==
    /\ fr[t].op \in GetOps
    /\ pc[t] = "Unlock" \/ (pc[t] = "RUnlock" /\ fr[t].ok)
\* no Set call on instance i is in progress
Quiescent(i) == \A t \in Threads : h[t] = i => pc[t] \notin {"SetLoad", "SetCAS"}
Holders(i) == {t \in Threads : h[t] = i}

\* C1. At most one creation: every instance ever created is the one its map
\* binds to its name (so no second instance was created for a name and no entry
\* was replaced), and every Get* call returns the instance bound to the name it
\* was called with.
C1_AtMostOneCreation ==
    /\ \A i \in Allocated : box[NsOf(heap[i].type)][heap[i].name] = i
    /\ \A t \in Threads : h[t] # None => h[t] \in Allocated
    /\ \A t \in Threads :
          Returning(t) => fr[t].v # None /\ fr[t].v = box[fr[t].ns][fr[t].name]

\* C1 witness: a call missed in its first lookup and found, under the exclusive
\* lock, the instance another thread created and already holds.
C1_Witness ==
    \E t, u \in Threads :
        /\ t # u
        /\ fr[t].op \in GetOps /\ pc[t] = "Unlock" /\ fr[t].ok
        /\ h[u] = fr[t].v

\* C2. Sum correctness: once every thread has obtained the counter and made its
\* IncrementsPerThread calls of Increment(), Value() is NumThreads times
\* IncrementsPerThread.
SumDone == \A t \in Threads : pc[t] = "idle" /\ h[t] # None /\ calls[t] = IncrementsPerThread
C2_SumCorrect ==
    SumDone => \A t \in Threads : Value(h[t]) = NumThreads * IncrementsPerThread

\* C2 witness: all threads are through.
C2_Witness == SumDone /\ \A t \in Threads : heap[h[t]].type = "counterImpl"

\* C3. Extremum correctness: when no Set call is in progress on a tracker, a Max
\* tracker holds the maximum of 0 and all arguments passed to Set, a Min tracker
\* the minimum of the largest int64 and all arguments passed to Set.
C3_ExtremumCorrect ==
    \A i \in Allocated :
        Quiescent(i) =>
            /\ heap[i].type = "maxImpl" =>
                  Value(i) = IF passed[i].n = 0 THEN 0 ELSE Max2(0, passed[i].ext)
            /\ heap[i].type = "minImpl" =>
                  Value(i) = IF passed[i].n = 0 THEN MaxInt64
                             ELSE Min2(MaxInt64, passed[i].ext)

\* C3 witness: several threads have made Set calls on one Max tracker, all have
\* returned, and it holds the largest candidate.
C3_Witness ==
    \E i \in Allocated :
        /\ heap[i].type = "maxImpl"
        /\ Cardinality(Holders(i)) > 1
        /\ Quiescent(i)
        /\ passed[i].n > 1
        /\ passed[i].ext = MaxCand
        /\ Value(i) = MaxCand

\* C4. The first Set on a fresh Max tracker applies: when exactly one Set call
\* has been made on it and has returned, Value() is that call's candidate.
C4_FirstSetApplies ==
    \A i \in Allocated :
        (heap[i].type = "maxImpl" /\ passed[i].n = 1 /\ Quiescent(i))
            => Value(i) = passed[i].ext

\* C5. A fresh Max tracker holds 0, and while every candidate passed to Set is
\* negative it keeps holding 0.
C5_NegativeCandidatesReportZero ==
    \A i \in Allocated :
        (heap[i].type = "maxImpl" /\ (passed[i].n = 0 \/ passed[i].ext < 0))
            => Value(i) = 0

\* C5 witness: several Set calls, all with negative candidates, have been made
\* on a Max tracker by several threads and have returned.
C5_Witness ==
    \E i \in Allocated :
        /\ heap[i].type = "maxImpl"
        /\ Cardinality(Holders(i)) > 1
        /\ passed[i].n > 1
        /\ passed[i].ext < 0
        /\ Quiescent(i)

\* C6. Set is a no-op unless the candidate strictly beats the value it observes:
\* the load step of a Set whose candidate does not beat the current value (ties
\* included) returns at once, attempts no compare-and-swap and writes nothing.
DoesNotBeat(t) ==
    \/ heap[h[t]].type = "maxImpl" /\ fr[t].v64 <= heap[h[t]].value
    \/ heap[h[t]].type = "minImpl" /\ fr[t].v64 >= heap[h[t]].value
C6_NoOpUnlessBeats ==
    [][\A t \in Threads :
          (pc[t] = "SetLoad" /\ pc'[t] # "SetLoad" /\ DoesNotBeat(t))
              => (pc'[t] = "idle" /\ heap' = heap)]_vars

\* C6 witness: a Set is about to observe a value equal to its candidate, a value
\* that an earlier Set stored.
C6_Witness ==
    \E t \in Threads :
        /\ pc[t] = "SetLoad"
        /\ heap[h[t]].type = "maxImpl"
        /\ heap[h[t]].value > 0
        /\ fr[t].v64 = heap[h[t]].value

\* C7. A counter's value only increases: no step makes it smaller.
C7_CounterOnlyIncreases ==
    [][\A i \in Allocated :
          heap[i].type = "counterImpl" => heap'[i].value >= heap[i].value]_vars

\* C8. Tracker monotonicity: no step lowers a Max tracker's value or raises a
\* Min tracker's value.
C8_TrackerMonotone ==
    [][\A i \in Allocated :
          /\ heap[i].type = "maxImpl" => heap'[i].value >= heap[i].value
          /\ heap[i].type = "minImpl" => heap'[i].value <= heap[i].value]_vars

\* C8 witness: a Set is about to compare-and-swap against a value that another
\* thread changed after this call loaded it.
C8_Witness ==
    \E t \in Threads :
        /\ pc[t] = "SetCAS"
        /\ fr[t].o # heap[h[t]].value

\* C9. Namespace independence: the instances bound to one name in the three maps
\* are distinct and of their map's type; a Get* call's creation step changes no
\* map but its own; and a step that changes one instance's value leaves every
\* other instance's value as it was.
C9_NamespaceIndependence ==
    /\ [](\A n \in Names : \A ns1, ns2 \in Namespaces :
            /\ box[ns1][n] # None => heap[box[ns1][n]].type = ImplOf(ns1)
            /\ (ns1 # ns2 /\ box[ns1][n] # None) => box[ns1][n] # box[ns2][n])
    /\ [][/\ \A t \in Threads : \A ns \in Namespaces :
                (fr[t].op \in GetOps /\ pc[t] = "Locked" /\ pc'[t] = "Unlock"
                    /\ ns # fr[t].ns) => box'[ns] = box[ns]
          /\ \A i, j \in Allocated :
                (i # j /\ heap'[i].value # heap[i].value)
                    => heap'[j].value = heap[j].value]_vars

\* C9 witness: one name is bound in all three maps and each of the three
\* instances has been mutated.
C9_Witness ==
    \E n \in Names :
        /\ box.counters[n] # None /\ box.min[n] # None /\ box.max[n] # None
        /\ Value(box.counters[n]) # 0
        /\ Value(box.min[n]) # MaxInt64
        /\ Value(box.max[n]) # 0

NsOfSection(section) == IF section = "Counters" THEN "counters"
                        ELSE IF section = "Min" THEN "min" ELSE "max"
Sections == {"Counters", "Min", "Max"}
\* the names bound in a map
Bound(mp) == {n \in Names : mp[n] # None}
\* the names among the references a snapshot copied, and among the entries rendered
CopiedNames(s) == {Name(s[k]) : k \in 1..Len(s)}
RenderedNames(out, section) == {out[k].name : k \in {j \in 1..Len(out) : out[j].section = section}}
\* a snapshot whose template has rendered its last entry
Rendered(t) == /\ fr[t].op = "WriteTo"
               /\ pc[t] = "Execute"
               /\ fr[t].i = Len(Entries(fr[t].data))

\* C11: the names a snapshot copies and renders in each section are exactly the
\* names bound in that namespace's map when the snapshot's RLock returned: a name
\* created later never appears and no name bound by then is missing.
C11_MembershipFixedAtLock ==
    \A t \in Threads : \A section \in Sections :
        /\ (fr[t].op = "WriteTo" /\ pc[t] \in {"Sort", "Execute"})
              => CopiedNames(fr[t].data[section]) = Bound(fr[t].at[NsOfSection(section)])
        /\ Rendered(t)
              => RenderedNames(fr[t].out, section) = Bound(fr[t].at[NsOfSection(section)])

\* a snapshot has rendered a counter while another thread waits for the exclusive
\* lock to create a name the snapshot does not hold
C11_Witness ==
    \E t, u \in Threads :
        /\ Rendered(t)
        /\ RenderedNames(fr[t].out, "Counters") # {}
        /\ pc[u] = "LockWait"
        /\ fr[u].name \notin Bound(fr[t].at[fr[u].ns])

\* ---------------------------------------------------------------- C12
\* the lines of a section as the registry defines them: the names bound in the
\* namespace, in lexicographic order, each once, with the instance's value
SectionOf(ns) ==
    LET names == SelectSeq(NameSeq, LAMBDA n : box[ns][n] # None)
    IN  [k \in 1..Len(names) |-> <<"  ", names[k], ": ", heap[box[ns][names[k]]].value>>]

\* C12: the text of a snapshot is the header "== Counters ==", one line per
\* counter, the header "== Min values ==", one line per Min tracker, the header
\* "== Max values ==", one line per Max tracker; the headers are there when a
\* namespace is empty, and within a section every bound name has exactly one line,
\* in ascending order of name whatever the order of creation.
C12_DeterministicRender ==
    Rendered(First) =>
        Text(fr[First].out) =
            <<<<"== Counters ==">>>> \o SectionOf("counters")
            \o <<<<"== Min values ==">>>> \o SectionOf("min")
            \o <<<<"== Max values ==">>>> \o SectionOf("max")

\* counters created as b, a, c, a and c with another value than b, have been rendered
C12_Witness ==
    /\ Rendered(First)
    /\ \A n \in Names : box.counters[n] # None
    /\ box.counters["b"] < box.counters["a"]
    /\ box.counters["a"] < box.counters["c"]
    /\ heap[box.counters["b"]].value = 0
    /\ heap[box.counters["a"]].value = MaxShown
    /\ heap[box.counters["c"]].value = MaxShown
    /\ box.min["a"] # None
    /\ box.max["a"] = None

\* ---------------------------------------------------------------- C13
\* C13: every signal the dumper receives is logged before anything else, and the
\* process exits on it if and only if it is SIGTERM, or it is SIGINT and the
\* previous SIGINT came less than a second before; the first SIGINT, however soon
\* after InitCountersOnSignal, does not exit.
C13_ExitRule ==
    /\ dumper.pc \in {"Now", "Exit"} => dumper.logged = dumper.received
    /\ dumper.pc = "range" => dumper.logged = dumper.received
    /\ dumper.last.sig # "none" =>
          (dumper.last.exit <=>
              \/ dumper.last.sig = "SIGTERM"
              \/ /\ dumper.last.sig = "SIGINT"
                 /\ dumper.last.prev # Never
                 /\ dumper.last.l - dumper.last.prev < TicksPerSecond)

\* ---------------------------------------------------------------- C14
\* the int64 congruent to x modulo 2^64
TwosComplement(x) == CHOOSE y \in Int64 : (y - x) % Pow2(IntBits) = 0

\* C14: IncrementBy(delta) on a counter whose value is v can always be taken and
\* stores v + delta wrapped to the int64 range (the largest value plus 1 is the
\* smallest value); there is no overflow check and no error state.
C14_WrapsSilently ==
    /\ [](\A t \in Threads : (pc[t] = "idle" /\ IsA(t, "counterImpl"))
            => \A d \in WrapDeltas : ENABLED IncrementBy(t, d))
    /\ [][\A t \in Threads : \A d \in WrapDeltas :
            IncrementBy(t, d) =>
                /\ heap'[h[t]].value = TwosComplement(heap[h[t]].value + d)
                /\ (heap[h[t]].value = MaxInt64 /\ d = 1) => heap'[h[t]].value = MinInt64
                /\ pc' = pc]_vars

\* only positive deltas were added and the counter is negative: it has wrapped
C14_Witness ==
    \E i \in 1..Len(heap) : heap[i].type = "counterImpl" /\ heap[i].value < 0

\* ---------------------------------------------------------------- C16
\* C16: what a Value() call returns is 0 plus the sum of the deltas of a set of
\* IncrementBy / Increment calls that holds every call that returned before the
\* Value() call started and no call that started after it returned.
C16_ValueLinearizable ==
    \A t \in Threads : pc[t] = "Loaded" => fr[t].o \in fr[t].poss

\* a Value() call returns a sum that includes an increment that had not returned
\* when the call started
C16_Witness ==
    \E t \in Threads :
        /\ pc[t] = "Loaded"
        /\ fr[t].o # returned[Name(h[t])]
        /\ Adding(h[t]) = {}
        /\ fr[t].o # 0

\* ---------------------------------------------------------------- C15
\* C15: whatever the state of the registry's lock, a thread that holds a handle
\* can take the next step of Increment, IncrementBy, Set and Value on it, and the
\* step leaves the lock as it is: the step neither waits for the lock nor takes it.
C15_HandleOpsIgnoreLock ==
    \A t \in Threads :
        /\ (pc[t] = "idle" /\ IsA(t, "counterImpl")) =>
              /\ ENABLED (Increment(t) /\ m' = m)
              /\ \A d \in Deltas : ENABLED (IncrementBy(t, d) /\ m' = m)
              /\ \A d \in Deltas : ENABLED (CallIncrementBy(t, d) /\ m' = m)
              /\ ENABLED (CallValue(t) /\ m' = m)
        /\ (pc[t] = "idle" /\ IsA(t, "maxImpl")) =>
              \A v \in Cands : ENABLED (CallMaxSet(t, v) /\ m' = m)
        /\ (pc[t] = "idle" /\ IsA(t, "minImpl")) =>
              \A v \in Cands : ENABLED (CallMinSet(t, v) /\ m' = m)
        /\ pc[t] = "SetLoad" => ENABLED (SetLoad(t) /\ m' = m)
        /\ pc[t] = "SetCAS" => ENABLED (SetCAS(t) /\ m' = m)
        /\ pc[t] = "Add" => ENABLED (IncrementByAdd(t) /\ m' = m)
        /\ pc[t] = "Load" => ENABLED (ValueLoad(t) /\ m' = m)

\* a thread is between the load and the swap of a Set while another thread holds
\* the lock exclusively in a get-or-create
C15_Witness ==
    \E t, u \in Threads :
        /\ pc[t] = "SetCAS"
        /\ pc[u] = "Locked"
        /\ m.w = u

\* ---------------------------------------------------------------- C17
\* the stored value lies beyond o in the direction the tracker moves
Beyond(type, value, o) == IF type = "maxImpl" THEN value > o ELSE value < o

\* C17: when the compare-and-swap of a Set call fails, the stored value is no
\* longer the value the call loaded: a swap of another call has moved it toward
\* the tracker's bound in between. Under fair scheduling every Set call returns.
C17_SetProgress ==
    /\ [][\A t \in Threads :
            (pc[t] = "SetCAS" /\ pc'[t] = "SetLoad") =>
                Beyond(heap[h[t]].type, heap[h[t]].value, fr[t].o)]_vars
    /\ \A t \in Threads : (pc[t] \in {"SetLoad", "SetCAS"}) ~> (pc[t] = "idle")

\* a Set call on a Min tracker is back at its load, its swap having failed: the
\* value it had loaded was the initial one and the stored value is smaller now
C17_Witness ==
    \E t \in Threads :
        /\ IsA(t, "minImpl")
        /\ pc[t] = "SetLoad"
        /\ fr[t].o = MinInit
        /\ Value(h[t]) < fr[t].o

\* ---------------------------------------------------------------- C18
\* the next step of t reads a map: the lookup of Get*, the range loops of WriteTo,
\* len and the range loops of the HTTP handler
ReadsMaps(t) == pc[t] \in {"RLocked", "Fprintf"}
\* the next step of t looks a name up again and may insert it
WritesMaps(t) == pc[t] = "Locked"

\* C18: a thread reads the maps only while it holds the shared or the exclusive
\* lock and inserts only while it holds the exclusive lock; while a thread is at
\* its insert no other thread is reading or writing a map.
C18_MapsOnlyUnderLock ==
    /\ [](\A t \in Threads :
            /\ ReadsMaps(t) => (t \in m.r /\ \A u \in Threads : ~WritesMaps(u))
            /\ WritesMaps(t) =>
                  /\ m.w = t
                  /\ m.r = {}
                  /\ \A u \in Threads \ {t} : ~ReadsMaps(u) /\ ~WritesMaps(u))
    /\ [][box' # box => \E t \in Threads : WritesMaps(t) /\ m.w = t /\ pc'[t] = "Unlock"]_vars

\* a get-or-create is at its insert while the HTTP handler waits for the read lock
C18_Witness ==
    \E t, u \in Threads :
        /\ WritesMaps(u)
        /\ box[fr[u].ns][fr[u].name] = None
        /\ pc[t] = "RLockWait"
        /\ fr[t].op = "ServeHTTP"

\* ---------------------------------------------------------------- C19
\* t is inside a Get* call on the path that takes the exclusive lock
OnLockPath(t) == fr[t].op \in GetOps /\ pc[t] \in {"Lock", "LockWait", "Locked", "Unlock"}

\* C19: a Get* call that started when its name was bound never takes the
\* exclusive lock, and no step of it changes a map; a call whose first lookup
\* missed and whose second lookup, under the exclusive lock, finds the name
\* inserts nothing, allocates nothing and returns the instance the map holds.
C19_OnlyFirstAccessMutates ==
    /\ [](\A t \in Threads : fr[t].had => ~OnLockPath(t))
    /\ [][\A t \in Threads :
            /\ (fr[t].had /\ pc'[t] # pc[t]) => box' = box
            /\ (fr[t].had /\ pc[t] = "RUnlock" /\ pc'[t] = "idle")
                  => h'[t] = box[fr[t].ns][fr[t].name]
            /\ (WritesMaps(t) /\ pc'[t] = "Unlock" /\ box[fr[t].ns][fr[t].name] # None)
                  => /\ box' = box
                     /\ heap' = heap
                     /\ fr'[t].v = box[fr[t].ns][fr[t].name]
            /\ (pc[t] = "Unlock" /\ pc'[t] = "idle")
                  => h'[t] = box[fr[t].ns][fr[t].name]]_vars

\* a call that had missed has found the name on its second lookup, while a call
\* that started with the name bound waits behind it for the read lock
C19_Witness ==
    \E t, u \in Threads :
        /\ fr[t].had
        /\ pc[t] = "RLockWait"
        /\ ~fr[u].had
        /\ pc[u] = "Unlock"
        /\ fr[u].ok

\* ---------------------------------------------------------------- C20
\* t holds the lock, shared or exclusively, or sleeps in RLock
InRLock(t) == t \in m.r \cup m.b

\* C20: a thread that asks for the exclusive lock has given the shared lock
\* back, and a thread that is in no call holds no lock; as long as a call is in
\* progress some call can take a step; under fair scheduling every call of
\* GetCounter / GetMin / GetMax, WriteTo and the HTTP handler returns.
C20_DeadlockFree ==
    /\ [](\A t \in Threads :
            /\ OnLockPath(t) => ~InRLock(t)
            /\ pc[t] = "idle" => (~InRLock(t) /\ m.w # t))
    /\ []((\E t \in Threads : pc[t] # "idle") => \E t \in Threads : ENABLED Finish(t))
    /\ \A t \in Threads : (pc[t] # "idle") ~> (pc[t] = "idle")

\* a get-or-create has announced itself as writer and waits for a snapshot, which
\* is rendering, to give the read lock back
C20_Witness ==
    \E t, u \in Threads :
        /\ pc[t] = "LockWait"
        /\ m.w = t
        /\ fr[u].op = "WriteTo"
        /\ pc[u] = "Execute"
        /\ u \in m.r

====
